---- MODULE Spec2Model ----
(***************************************************************************)
(* Model of elliott_wave_forecast_app.py: zigzag pivot detection, wave     *)
(* feature extraction, positional labelling / training-set construction,   *)
(* triangle detection and the "Run Analysis" handler with its forecast     *)
(* history log.                                                            *)
(*                                                                         *)
(* Numbers.  Prices are positive integers.  A threshold is an integer      *)
(* number of hundredths (the slider value, which the script divides by     *)
(* 100).  The float test  (p - last) / last <= -threshold  is modelled by  *)
(* the exact cross-multiplied integer test; both sides of the float test   *)
(* are correctly rounded quotients of small integers, so equal rationals   *)
(* round to equal floats and unequal ones keep their order.                *)
(* Python indices are 0-based and are kept as values; At(s, i) reads the   *)
(* Python element s[i] of the 1-based TLA+ sequence s.                     *)
(***************************************************************************)
EXTENDS Integers, Sequences, FiniteSets, TLC

VARIABLES pc, ticker, prices, threshold, pivots, raised, waves_df, triangles,
          X, y_class, y_reg, ui, forecast_log, log_init, now

vars == <<pc, ticker, prices, threshold, pivots, raised, waves_df, triangles,
          X, y_class, y_reg, ui, forecast_log, log_init, now>>

(* ------------------------------ bounds --------------------------------- *)
\* longest price series given to zigzag_detector on its own
MaxLen == 6
\* longest pivot list given to detect_triangles on its own
MaxPivots == 6
\* longest wave table given to label_and_prepare on its own
MaxWaves == 7
\* longest price series downloaded by the Run Analysis handler
MaxPrices == 9
\* number of script runs explored in one session
MaxRuns == 2

\* the slider value is divided by ThDen to give the threshold fraction
ThDen == 100

(* ------------------------------ helpers -------------------------------- *)
At(s, i) == s[i + 1]

Abs(n) == IF n < 0 THEN -n ELSE n

RECURSIVE GCD(_, _)
GCD(a, b) == IF b = 0 THEN a ELSE GCD(b, a % b)

\* a Python number: (num/den) ^ (1/root), in lowest terms, den > 0
Rat(n, d) ==
    LET g == GCD(Abs(n), Abs(d))
        s == IF d < 0 THEN -1 ELSE 1
    IN  [num |-> s * (n \div g), den |-> s * (d \div g), root |-> 1]

Num(n) == [num |-> n, den |-> 1, root |-> 1]

SeqsUpTo(S, n) == UNION {[1..k -> S] : k \in 0..n}

(* ------------------------- zigzag_detector ------------------------------ *)
\* lines 17-20: the locals before the loop
ZigzagInit(ps) ==
    [pivots |-> <<>>, last |-> At(ps, 0), trend_up |-> "None", last_index |-> 0]

\* a reversal that emits the current point instead of the anchor
ZigzagFlip_emit_current(st, i, p, up) ==
    [pivots |-> Append(st.pivots, <<i, p>>),
     last |-> p, trend_up |-> up, last_index |-> i]

\* lines 27-30 and 32-35: emit the anchor, flip the trend, move the anchor
ZigzagFlip(st, i, p, up) ==
    [pivots |-> Append(st.pivots, <<st.last_index, st.last>>),
     last |-> p, trend_up |-> up, last_index |-> i]

\* lines 23-35: one iteration of the loop, at Python index i
ZigzagStep(st, i, ps, th) ==
    LET p     == At(ps, i)
        cnum  == p - st.last            \* change = cnum / st.last
        trend == IF st.trend_up = "None"
                 THEN (IF cnum > 0 THEN "True" ELSE "False")
                 ELSE st.trend_up
        s1    == [st EXCEPT !.trend_up = trend]
    IN  IF trend = "True" /\ cnum * ThDen <= -(th * st.last)
        THEN ZigzagFlip(s1, i, p, "False")
        ELSE IF trend = "False" /\ cnum * ThDen >= th * st.last
        THEN ZigzagFlip(s1, i, p, "True")
        ELSE s1

\* the loop state after the iterations i = 1 .. k
RECURSIVE ZigzagScan(_, _, _)
ZigzagScan(ps, th, k) ==
    IF k = 0 THEN ZigzagInit(ps)
    ELSE ZigzagStep(ZigzagScan(ps, th, k - 1), k, ps, th)

\* lines 16-37; prices[0] of an empty series raises IndexError
zigzag_detector(ps, th) ==
    IF Len(ps) = 0
    THEN [raised |-> "IndexError", pivots |-> <<>>]
    ELSE [raised |-> "None",
          pivots |-> Append(ZigzagScan(ps, th, Len(ps) - 1).pivots,
                            <<Len(ps) - 1, At(ps, Len(ps) - 1)>>)]

(* ---------------------- extract_wave_features --------------------------- *)
RECURSIVE SumOver(_, _, _, _)
\* sum of f applied to the Python slice s[a:b]
SumOver(s, a, b, sq) ==
    IF a >= b \/ a >= Len(s) THEN 0
    ELSE (IF sq THEN At(s, a) * At(s, a) ELSE At(s, a)) + SumOver(s, a + 1, b, sq)

RECURSIVE SqrtFrom(_, _)
SqrtFrom(n, k) == IF k * k >= n THEN k ELSE SqrtFrom(n, k + 1)

\* the square root of the rational r, exact when r is a square of a rational
SqrtRat(r) ==
    LET a == SqrtFrom(r.num, 0)
        b == SqrtFrom(r.den, 0)
    IN  IF a * a = r.num /\ b * b = r.den
        THEN [num |-> a, den |-> b, root |-> 1]
        ELSE [r EXCEPT !.root = 2]

\* np.std of the Python slice s[a:b]: the population standard deviation
np_std(s, a, b) ==
    LET hi == IF b < Len(s) THEN b ELSE Len(s)
        n  == hi - a
        s1 == SumOver(s, a, hi, FALSE)
        s2 == SumOver(s, a, hi, TRUE)
    IN  SqrtRat(Rat(n * s2 - s1 * s1, n * n))

\* lines 43-57: the wave between pivots[i] and pivots[i + 1]
WaveOf(ps, pv, i) ==
    LET i1 == At(pv, i)[1]
        p1 == At(pv, i)[2]
        i2 == At(pv, i + 1)[1]
        p2 == At(pv, i + 1)[2]
        duration == i2 - i1
    IN  [Start      |-> i1,
         End        |-> i2,
         Change     |-> Rat(p2 - p1, p1),
         Duration   |-> duration,
         Slope      |-> IF duration # 0 THEN Rat(p2 - p1, p1 * duration) ELSE Num(0),
         Volatility |-> IF duration > 0 THEN np_std(ps, i1, i2) ELSE Num(0),
         Direction  |-> IF p2 - p1 > 0 THEN 1 ELSE 0]

\* lines 40-58: one wave per consecutive pivot pair
extract_wave_features(ps, pv) ==
    [k \in 1..(IF Len(pv) > 0 THEN Len(pv) - 1 ELSE 0) |-> WaveOf(ps, pv, k - 1)]

(* ------------------------- label_and_prepare ---------------------------- *)
\* a labelling whose numbered labels run one wave further
PositionalLabel_six(i) ==
    IF i < 6 THEN <<"Wave_1", "Wave_2", "Wave_3", "Wave_4", "Wave_5", "Wave_6">>[i + 1]
    ELSE "Unknown"

\* line 62: 'Wave_' + str(i + 1) if i < 5 else 'Unknown'
PositionalLabel(i) ==
    IF i < 5 THEN <<"Wave_1", "Wave_2", "Wave_3", "Wave_4", "Wave_5">>[i + 1]
    ELSE "Unknown"

\* line 62: the table with its Label column
WithLabels(df) ==
    [k \in 1..Len(df) |->
        [Start |-> df[k].Start, End |-> df[k].End, Change |-> df[k].Change,
         Duration |-> df[k].Duration, Slope |-> df[k].Slope,
         Volatility |-> df[k].Volatility, Direction |-> df[k].Direction,
         Label |-> PositionalLabel(k - 1)]]

\* line 69: the five attributes of one wave, in order
WaveAttrs(wave) ==
    <<wave.Change, Num(wave.Duration), wave.Slope, wave.Volatility,
      Num(wave.Direction)>>

\* lines 66-69: the attributes of window rows 0..3 (waves i .. i+3)
Features(df, i) ==
    WaveAttrs(At(df, i)) \o WaveAttrs(At(df, i + 1)) \o
    WaveAttrs(At(df, i + 2)) \o WaveAttrs(At(df, i + 3))

\* line 64: range(len(df) - 5)
WindowCount(n) == IF n - 5 > 0 THEN n - 5 ELSE 0

\* lines 61-73
label_and_prepare(df) ==
    LET ldf == WithLabels(df)
        m   == WindowCount(Len(df))
    IN  [df      |-> ldf,
         X       |-> [k \in 1..m |-> Features(ldf, k - 1)],
         y_class |-> [k \in 1..m |-> At(ldf, k - 1 + 4).Label],
         y_reg   |-> [k \in 1..m |-> At(ldf, k - 1 + 4).Change]]

(* -------------------------- detect_triangles ---------------------------- *)
\* the prices of the window's pivots at the positions of the given parity
RECURSIVE ByParity(_, _, _)
ByParity(sub, j, even) ==
    IF j >= Len(sub) THEN <<>>
    ELSE (IF (j % 2 = 0) = even THEN <<At(sub, j)[2]>> ELSE <<>>)
         \o ByParity(sub, j + 1, even)

\* a classification that anchors the pattern at the window's first pivot
Classify_anchor_first(sub, highs, lows) ==
    IF /\ \A k \in 1..(Len(highs) - 1) : At(highs, k) < At(highs, k - 1)
       /\ \A k \in 1..(Len(lows) - 1) : At(lows, k) > At(lows, k - 1)
    THEN <<<<At(sub, 0)[1], "Contracting Triangle">>>>
    ELSE IF At(highs, Len(highs) - 1) > At(highs, 0) /\ At(lows, Len(lows) - 1) > At(lows, 0)
    THEN <<<<At(sub, 0)[1], "Running Triangle">>>>
    ELSE IF At(highs, Len(highs) - 1) = At(highs, 0) \/ At(lows, Len(lows) - 1) = At(lows, 0)
    THEN <<<<At(sub, 0)[1], "Barrier Triangle">>>>
    ELSE <<>>

\* lines 82-87: what one window appends to patterns
Classify(sub, highs, lows) ==
    IF /\ \A k \in 1..(Len(highs) - 1) : At(highs, k) < At(highs, k - 1)
       /\ \A k \in 1..(Len(lows) - 1) : At(lows, k) > At(lows, k - 1)
    THEN <<<<At(sub, 2)[1], "Contracting Triangle">>>>
    ELSE IF At(highs, Len(highs) - 1) > At(highs, 0) /\ At(lows, Len(lows) - 1) > At(lows, 0)
    THEN <<<<At(sub, 2)[1], "Running Triangle">>>>
    ELSE IF At(highs, Len(highs) - 1) = At(highs, 0) \/ At(lows, Len(lows) - 1) = At(lows, 0)
    THEN <<<<At(sub, 2)[1], "Barrier Triangle">>>>
    ELSE <<>>

\* lines 78-87: the patterns of the windows i, i+1, ...
RECURSIVE TrianglesFrom(_, _)
TrianglesFrom(pv, i) ==
    IF i >= Len(pv) - 4 THEN <<>>
    ELSE LET sub == SubSeq(pv, i + 1, i + 5)
         IN  Classify(sub, ByParity(sub, 0, TRUE), ByParity(sub, 0, FALSE))
             \o TrianglesFrom(pv, i + 1)

\* lines 76-88
detect_triangles(pv) == TrianglesFrom(pv, 0)

(* --------------------- specification: zigzag alone ---------------------- *)
ZPriceVals == {8, 9, 10, 11, 12, 15}
ZThresholds == {0, 10, 20, 100}

Blank ==
    /\ waves_df = <<>> /\ triangles = <<>>
    /\ X = <<>> /\ y_class = <<>> /\ y_reg = <<>>
    /\ ui = [error |-> "None", fitted |-> FALSE, forecast |-> <<>>]
    /\ forecast_log = <<>> /\ log_init = FALSE
    /\ ticker = "AAPL" /\ now = 0

ZInit ==
    /\ pc = "input"
    /\ prices \in SeqsUpTo(ZPriceVals, MaxLen)
    /\ threshold \in ZThresholds
    /\ pivots = <<>> /\ raised = "None"
    /\ Blank

ZCall ==
    /\ pc = "input"
    /\ pc' = "returned"
    /\ pivots' = zigzag_detector(prices, threshold).pivots
    /\ raised' = zigzag_detector(prices, threshold).raised
    /\ UNCHANGED <<ticker, prices, threshold, waves_df, triangles, X, y_class,
                   y_reg, ui, forecast_log, log_init, now>>

ZNext == ZCall

SpecZigzag == ZInit /\ [][ZNext]_vars

\* the call returned a pivot list for a valid input
ZValid ==
    /\ pc = "returned" /\ Len(prices) > 0
    /\ threshold > 0 /\ threshold < ThDen

\* C1: for non-empty positive prices and threshold in (0,1) the returned
\* pivot indices are strictly increasing and the last pivot is
\* (len(prices)-1, prices[-1]).
C1_IncreasingAndTerminal ==
    ZValid =>
        /\ Len(pivots) >= 1
        /\ \A k \in 1..(Len(pivots) - 1) : pivots[k][1] < pivots[k + 1][1]
        /\ pivots[Len(pivots)] = <<Len(prices) - 1, prices[Len(prices)]>>

\* a reversal detected at the final index, followed by the terminal pivot
C1_Witness ==
    /\ ZValid /\ Len(prices) >= 3 /\ Len(pivots) >= 2
    /\ ZigzagScan(prices, threshold, Len(prices) - 1).last_index = Len(prices) - 1
    /\ Len(ZigzagScan(prices, threshold, Len(prices) - 2).pivots) < Len(pivots) - 1

\* C2: for non-empty positive prices and threshold in (0,1) the first
\* returned pivot has index 0, also when no reversal ever occurs.
C2_FirstPivotIndexZero ==
    ZValid => pivots[1][1] = 0

\* C3: in the returned pivot list every three consecutive pivots a, b, c
\* (the terminal pivot included) have b strictly above both a and c or
\* strictly below both.
C3_Alternation ==
    ZValid =>
        \A k \in 1..(Len(pivots) - 2) :
            LET a == pivots[k][2]
                b == pivots[k + 1][2]
                c == pivots[k + 2][2]
            IN  (b > a /\ b > c) \/ (b < a /\ b < c)

\* C4: for prices [10,11,12,8,9,15] and threshold 0.2 the returned list has
\* a pivot at index 2 (price 12), a pivot at index 3 (price 8) and ends
\* with the terminal pivot (5, 15).
C4_Scenario ==
    (pc = "returned" /\ prices = <<10, 11, 12, 8, 9, 15>> /\ threshold = 20) =>
        /\ \E k \in 1..Len(pivots) : pivots[k] = <<2, 12>>
        /\ \E k \in 1..Len(pivots) : pivots[k] = <<3, 8>>
        /\ pivots[Len(pivots)] = <<5, 15>>

\* C8: a call with threshold 0 or >= 1 is rejected with InvalidThreshold
\* and returns no pivot list.
C8_InvalidThresholdRejected ==
    (pc = "returned" /\ (threshold = 0 \/ threshold >= ThDen)) =>
        (raised = "InvalidThreshold" /\ pivots = <<>>)

\* Python index j holds the first price that differs from prices[0]
FirstNonZeroChangeAt(j) ==
    /\ j \in 1..(Len(prices) - 1)
    /\ \A m \in 0..(j - 1) : At(prices, m) = At(prices, 0)
    /\ At(prices, j) # At(prices, 0)

\* C9: the initial trend is the sign of the first non-zero change relative
\* to prices[0]: after the iteration that sees it the trend is upward if it
\* is a rise and downward if it is a fall, and that first move emitted no
\* pivot.
C9_InitialTrendFromFirstNonZeroChange ==
    ZValid =>
        \A j \in 1..(Len(prices) - 1) :
            FirstNonZeroChangeAt(j) =>
                LET st == ZigzagScan(prices, threshold, j)
                IN  /\ st.trend_up =
                          (IF At(prices, j) > At(prices, 0) THEN "True" ELSE "False")
                    /\ st.pivots = <<>>

(* ------------------- specification: triangles alone --------------------- *)
TPriceVals == {10, 11, 12}
Strides == {1, 2}

\* the pivot list with the given prices at indices 0, stride, 2*stride, ...
PivotsAt(q, stride) == [k \in 1..Len(q) |-> <<stride * (k - 1), q[k]>>]

TInit ==
    /\ pc = "input"
    /\ \E q \in SeqsUpTo(TPriceVals, MaxPivots), d \in Strides :
           pivots = PivotsAt(q, d)
    /\ prices = <<>> /\ threshold = 0 /\ raised = "None"
    /\ Blank

TCall ==
    /\ pc = "input"
    /\ pc' = "returned"
    /\ triangles' = detect_triangles(pivots)
    /\ UNCHANGED <<ticker, prices, threshold, pivots, raised, waves_df, X,
                   y_class, y_reg, ui, forecast_log, log_init, now>>

TNext == TCall

SpecTriangles == TInit /\ [][TNext]_vars

\* the pattern the three rules, tried in order, give the window at Python
\* index i: highs at window positions 0, 2, 4 and lows at positions 1, 3
WindowPattern(i) ==
    LET h0 == At(pivots, i)[2]
        l0 == At(pivots, i + 1)[2]
        h1 == At(pivots, i + 2)[2]
        l1 == At(pivots, i + 3)[2]
        h2 == At(pivots, i + 4)[2]
    IN  IF h0 > h1 /\ h1 > h2 /\ l0 < l1 THEN "Contracting Triangle"
        ELSE IF h2 > h0 /\ l1 > l0 THEN "Running Triangle"
        ELSE IF h2 = h0 \/ l1 = l0 THEN "Barrier Triangle"
        ELSE "none"

\* the windows that match some rule, in order
MatchingWindows ==
    {i \in 0..(Len(pivots) - 5) : WindowPattern(i) # "none"}

\* C7: detect_triangles emits, per window of 5 consecutive pivots in order,
\* at most one pattern, chosen by the first matching rule in the order
\* Contracting, Running, Barrier, carrying the index of the window's
\* position-2 pivot; a window matching no rule emits nothing and fewer than
\* 5 pivots give an empty result.
C7_TrianglesPerWindow ==
    pc = "returned" =>
        /\ Len(triangles) = Cardinality(MatchingWindows)
        /\ \A k \in 1..Len(triangles) :
               \E i \in MatchingWindows :
                   /\ Cardinality({j \in MatchingWindows : j < i}) = k - 1
                   /\ triangles[k] = <<At(pivots, i + 2)[1], WindowPattern(i)>>
        /\ (Len(pivots) < 5 => triangles = <<>>)

\* six pivots: the first window matches no rule and emits nothing, the
\* second is a Contracting Triangle anchored at its position-2 pivot
C7_Witness ==
    /\ pc = "returned" /\ Len(pivots) = 6 /\ pivots[2][1] = 2
    /\ WindowPattern(0) = "none"
    /\ WindowPattern(1) = "Contracting Triangle"
    /\ triangles = <<<<6, "Contracting Triangle">>>>

(* ---------------- specification: label_and_prepare alone ---------------- *)
LPriceVals == {9, 10, 12}

\* a series that holds each pivot price for two bars
HoldTwice(q) == [k \in 1..(2 * Len(q)) |-> q[(k + 1) \div 2]]

LInit ==
    /\ pc = "input"
    /\ \E q \in SeqsUpTo(LPriceVals, MaxWaves + 1) :
           /\ prices = HoldTwice(q)
           /\ pivots = PivotsAt(q, 2)
    /\ threshold = 0 /\ raised = "None"
    /\ Blank

LExtract ==
    /\ pc = "input"
    /\ pc' = "waves"
    /\ waves_df' = extract_wave_features(prices, pivots)
    /\ UNCHANGED <<ticker, prices, threshold, pivots, raised, triangles, X,
                   y_class, y_reg, ui, forecast_log, log_init, now>>

LCall ==
    /\ pc = "waves"
    /\ pc' = "returned"
    /\ waves_df' = label_and_prepare(waves_df).df
    /\ X' = label_and_prepare(waves_df).X
    /\ y_class' = label_and_prepare(waves_df).y_class
    /\ y_reg' = label_and_prepare(waves_df).y_reg
    /\ UNCHANGED <<ticker, prices, threshold, pivots, raised, triangles, ui,
                   forecast_log, log_init, now>>

LNext == LExtract \/ LCall

SpecLabel == LInit /\ [][LNext]_vars

\* C5: for n waves the three outputs have length max(0, n-4), and example
\* i is the 20 attributes of waves i..i+3 with class target the Label of
\* wave i+4 and regression target the Change of wave i+4.
C5_OneExamplePerWindow ==
    pc = "returned" =>
        LET n == Len(waves_df)
            m == IF n - 4 > 0 THEN n - 4 ELSE 0
        IN  /\ Len(X) = m /\ Len(y_class) = m /\ Len(y_reg) = m
            /\ \A i \in 0..(m - 1) :
                   /\ Len(At(X, i)) = 20
                   /\ \A j \in 0..3 :
                          SubSeq(At(X, i), 5 * j + 1, 5 * j + 5) =
                              <<At(waves_df, i + j).Change,
                                Num(At(waves_df, i + j).Duration),
                                At(waves_df, i + j).Slope,
                                At(waves_df, i + j).Volatility,
                                Num(At(waves_df, i + j).Direction)>>
                   /\ At(y_class, i) = At(waves_df, i + 4).Label
                   /\ At(y_reg, i) = At(waves_df, i + 4).Change

\* C10: the class targets, when non-empty, are 'Wave_5' followed only by
\* 'Unknown'; 'Wave_1'..'Wave_4' never occur as a class target.
C10_ClassTargets ==
    pc = "returned" =>
        \A k \in 1..Len(y_class) :
            /\ y_class[k] = (IF k = 1 THEN "Wave_5" ELSE "Unknown")
            /\ y_class[k] \notin {"Wave_1", "Wave_2", "Wave_3", "Wave_4"}

\* a table long enough to give a 'Wave_5' target and an 'Unknown' target
C10_Witness ==
    /\ pc = "returned" /\ Len(waves_df) >= 7 /\ Len(y_class) >= 2
    /\ y_class[1] = "Wave_5" /\ y_class[2] = "Unknown"

(* --------------- specification: the Run Analysis handler ---------------- *)
RPriceVals == {10, 11}
\* slider positions (per cent), within the slider's range 1.0 .. 10.0
SliderVals == {5, 10}
Tickers == {"AAPL"}

NoOutput == [error |-> "None", fitted |-> FALSE, forecast |-> <<>>]

Range(s) == {s[k] : k \in 1..Len(s)}

\* Python round(x * 100, 2) of the rational x, in hundredths of a per cent:
\* the nearest integer to 10000 * x, ties to even
RoundPct(x) ==
    LET n == 10000 * x.num
        d == x.den
        f == n \div d
        r == n - f * d
    IN  IF 2 * r < d THEN f
        ELSE IF 2 * r > d THEN f + 1
        ELSE IF f % 2 = 0 THEN f ELSE f + 1

\* a guard that lets a single example through
TooFewExamples_one(Xs) == Len(Xs) < 1

\* line 113: len(X) < 2
TooFewExamples(Xs) == Len(Xs) < 2

\* line 97-103: the script has drawn its widgets; no run yet in the session
Init ==
    /\ pc = "idle"
    /\ prices = <<>> /\ threshold = 5 /\ pivots = <<>> /\ raised = "None"
    /\ waves_df = <<>> /\ triangles = <<>>
    /\ X = <<>> /\ y_class = <<>> /\ y_reg = <<>>
    /\ ui = NoOutput
    /\ forecast_log = <<>> /\ log_init = FALSE
    /\ ticker = "AAPL" /\ now = 0

\* a click or a widget change starts the script again from its first line:
\* the previous run's locals and output are gone, st.session_state stays
ScriptStart ==
    /\ pc \in {"idle", "ran"}
    /\ now < MaxRuns
    /\ pc' = "running"
    /\ now' = now + 1
    /\ \E th \in SliderVals, tk \in Tickers : threshold' = th /\ ticker' = tk
    /\ prices' = <<>> /\ pivots' = <<>> /\ raised' = "None"
    /\ waves_df' = <<>> /\ triangles' = <<>>
    /\ X' = <<>> /\ y_class' = <<>> /\ y_reg' = <<>>
    /\ ui' = NoOutput
    /\ UNCHANGED <<forecast_log, log_init>>

\* lines 105-158 with the button pressed: get_data returns the series ps
RunAnalysis ==
    /\ pc = "running"
    /\ \E ps \in SeqsUpTo(RPriceVals, MaxPrices) :
        LET zz  == zigzag_detector(ps, threshold)
            wv  == extract_wave_features(ps, zz.pivots)
            lp  == label_and_prepare(wv)
        IN  /\ pc' = "ran"
            /\ prices' = ps
            /\ raised' = zz.raised
            /\ UNCHANGED <<now, ticker, threshold>>
            /\ IF zz.raised # "None"
               THEN \* line 108 raises: the script run ends there
                    /\ UNCHANGED <<pivots, waves_df, triangles, X, y_class, y_reg,
                                   ui, forecast_log, log_init>>
               ELSE /\ pivots' = zz.pivots
                    /\ waves_df' = lp.df
                    /\ triangles' = detect_triangles(zz.pivots)
                    /\ X' = lp.X /\ y_class' = lp.y_class /\ y_reg' = lp.y_reg
                    /\ IF TooFewExamples(lp.X)
                       THEN /\ ui' = [error |-> "NotEnoughData", fitted |-> FALSE,
                                      forecast |-> <<>>]
                            /\ UNCHANGED <<forecast_log, log_init>>
                       ELSE \* lines 116-122: fit, then predict for X[-1]; a
                            \* forest predicts a class it was fitted on and a
                            \* change within the fitted targets
                            \E label_pred \in Range(lp.y_class),
                               price_pred \in Range(lp.y_reg) :
                                /\ ui' = [error |-> "None", fitted |-> TRUE,
                                          forecast |-> <<<<label_pred, price_pred>>>>]
                                /\ log_init' = TRUE
                                /\ forecast_log' =
                                       Append(forecast_log,
                                              [Time |-> now, Ticker |-> ticker,
                                               Label |-> label_pred,
                                               Forecast |-> RoundPct(price_pred)])

\* line 105 with the button not pressed: only the widgets are drawn
RenderIdle ==
    /\ pc = "running"
    /\ pc' = "idle"
    /\ UNCHANGED <<now, ticker, threshold, prices, pivots, raised, waves_df,
                   triangles, X, y_class, y_reg, ui, forecast_log, log_init>>

Next == ScriptStart \/ RunAnalysis \/ RenderIdle

Spec == Init /\ [][Next]_vars

\* the last script run was an analysis run that built a training set
Analysed == pc = "ran" /\ raised = "None"

====
